---- MODULE Spec2Model ----
(***************************************************************************)
(* One-time JWT: the receiver-side Manager (replay cache, lock, periodic   *)
(* sweep, validation sequence) and the generate() function, modelled from  *)
(* src/onetimejwt/__init__.py (the package) and src/onetimejwt.py (the     *)
(* legacy single-file variant).                                            *)
(*                                                                         *)
(* Strings are Python 2 byte strings: sequences of byte values.  The JWS   *)
(* compact serialization of the k-th minted token (base64url characters    *)
(* and dots, never a space) is abbreviated to the single symbol TokBase+k. *)
(* Time is counted in ticks, TicksPerSec ticks to the second; int() and    *)
(* the codec's whole-second clock truncate to a multiple of TicksPerSec.   *)
(* Ages are whole seconds.                                                 *)
(***************************************************************************)
EXTENDS Integers, Sequences, FiniteSets, TLC

VARIABLES
    build,      \* which source file runs: the package or the legacy variant
    scope,      \* how many Managers, tokens and threads this run may use
    now,        \* time.time(), in ticks
    made,       \* made[m]: Manager m has been constructed
    age,        \* age[m]: the instance attribute self.age
    ownSecrets, \* ownSecrets[m]: instance attribute self.secrets, or Unset
    clsSecrets, \* class attribute Manager.secrets
    jwts,       \* class attribute Manager.jwts: jti -> first-seen time
    lock,       \* class attribute Manager.lock: Free or its holder
    due,        \* due[m]: next firing time of the interval timer of m
    spc,        \* spc[m]: position of the timer thread of m
    tokens,     \* tokens minted so far: sequence of decoded token contents
    pc,         \* pc[t]: position of validator thread t
    call,       \* call[t]: locals of the valid() call thread t is in
    last,       \* history: the valid() call that returned last, and its outcome
    tally,      \* history: tally[j], calls on token j finished in this tick
    ctorArgs,   \* history: the secrets passed to the constructor of m
    nOk,        \* history: nOk[j] number of valid() calls that returned True
    owner,      \* history: owner[j] the Manager whose valid() recorded j
    raced,      \* history: raced[j], two calls waited for the lock together
    lastSweep,  \* history: what the last finished sweep pass did
    arg,        \* the argument of a function applied on its own
    out         \* out: which function was applied to arg, and its result

vars == << build, scope, now, made, age, ownSecrets, clsSecrets, jwts, lock, due, spc,
           tokens, pc, call, last, tally, ctorArgs, nOk, owner, raced, lastSweep,
           arg, out >>

----------------------------------------------------------------------------
(* Bounds of the model *)

TicksPerSec == 2
MaxTime == 8
MaxTokens == 2
NThreads == 2
NManagers == 2
MaxCalls == 2          \* valid() calls on one token within one tick
MintWindow == 2        \* ticks after the start in which tokens are minted

Managers == 1..NManagers
Threads == 1..NThreads

\* A run has several Managers and threads around one token, or several
\* tokens presented one call at a time to one Manager.
Scopes == { [managers |-> NManagers, tokens |-> 1,         threads |-> NThreads],
            [managers |-> 1,         tokens |-> MaxTokens, threads |-> 1] }
StartTime == TicksPerSec          \* the clock is well past the epoch
Sec(n) == n * TicksPerSec

Min(a, b) == IF a < b THEN a ELSE b

----------------------------------------------------------------------------
(* Byte strings *)

Take(s, n) == SubSeq(s, 1, Min(n, Len(s)))          \* s[:n]
Drop(s, n) == SubSeq(s, n + 1, Len(s))              \* s[n:]
Contains(sub, s) ==                                 \* sub in s
    \E i \in 1..(Len(s) - Len(sub) + 1) : SubSeq(s, i, i + Len(sub) - 1) = sub

StrBase64 == << 98, 97, 115, 101, 54, 52 >>            \* "base64"
StrBearer == << 66, 101, 97, 114, 101, 114, 32 >>      \* "Bearer "

SecretA == << 97 >>                                    \* "a"
SecretB == << 98 >>                                    \* "b"
SecretA64 == << 98, 97, 115, 101, 54, 52, 58, 89, 81, 61, 61 >>  \* "base64:YQ=="

(* base64.b64decode on well-padded input; BadPadding stands for the TypeError *)
BadPadding == << -1 >>
B64Val(c) ==
    IF c >= 65 /\ c <= 90 THEN c - 65
    ELSE IF c >= 97 /\ c <= 122 THEN c - 71
    ELSE IF c >= 48 /\ c <= 57 THEN c + 4
    ELSE IF c = 43 THEN 62
    ELSE IF c = 47 THEN 63
    ELSE 0
RECURSIVE b64decode(_)
b64decode(s) ==
    IF Len(s) = 0 THEN << >>
    ELSE IF Len(s) < 4 THEN BadPadding
    ELSE LET n == B64Val(s[1]) * 262144 + B64Val(s[2]) * 4096
                  + B64Val(s[3]) * 64 + B64Val(s[4])
             bytes == << n \div 65536, (n \div 256) % 256, n % 256 >>
             keep == IF s[3] = 61 THEN 1 ELSE IF s[4] = 61 THEN 2 ELSE 3
             rest == b64decode(Drop(s, 4))
         IN  IF rest = BadPadding THEN BadPadding
             ELSE Take(bytes, keep) \o rest

(* decode_secret: src/onetimejwt/__init__.py:72-77 *)
decode_secret(secret) ==
    IF Take(secret, 6) = StrBase64
    THEN b64decode(Drop(secret, 7))
    ELSE secret

RECURSIVE MapDecodeSecret(_)
MapDecodeSecret(ss) ==
    IF Len(ss) = 0 THEN << >>
    ELSE << decode_secret(Head(ss)) >> \o MapDecodeSecret(Tail(ss))

----------------------------------------------------------------------------
(* The token codec (PyJWT), as valid() and generate() use it *)

TokBase == 256
int(t) == (t \div TicksPerSec) * TicksPerSec       \* int(): whole seconds

\* jwt.encode(payload, key): the serialized token is the symbol TokBase + k
Serialized(k) == << TokBase + k >>

\* faulty variant: a codec that does not verify the exp claim
jwt_decode_no_exp(toks, token, secret, t) ==
    IF ~(Len(token) = 1 /\ token[1] - TokBase \in 1..Len(toks))
    THEN [kind |-> "DecodeError", k |-> 0]
    ELSE IF toks[token[1] - TokBase].key # secret
    THEN [kind |-> "DecodeError", k |-> 0]
    ELSE [kind |-> "payload", k |-> token[1] - TokBase]

\* jwt.decode(token, secret) at clock time t: the signature is verified
\* first, then the exp claim against the whole-second clock.
jwt_decode(toks, token, secret, t) ==
    IF ~(Len(token) = 1 /\ token[1] - TokBase \in 1..Len(toks))
    THEN [kind |-> "DecodeError", k |-> 0]
    ELSE LET k == token[1] - TokBase IN
         IF toks[k].key # secret
         THEN [kind |-> "DecodeError", k |-> 0]
         ELSE IF toks[k].hasExp /\ toks[k].exp < int(t)
         THEN [kind |-> "ExpiredSignatureError", k |-> 0]
         ELSE [kind |-> "payload", k |-> k]

(* generate: src/onetimejwt/__init__.py:80-87, src/onetimejwt.py:62-65 *)
SigningKey(b, secret) ==
    IF b = "package" THEN decode_secret(secret) ELSE secret

generate(b, secret, a, extra, jti, t) ==
    [ secret |-> secret,                \* history: the argument as given
      key    |-> SigningKey(b, secret),
      hasExp |-> TRUE,
      exp    |-> int(t + a),
      hasJti |-> TRUE,
      jti    |-> jti,
      extra  |-> IF b = "package" THEN extra ELSE FALSE,
      at     |-> t ]                     \* history: when it was minted

----------------------------------------------------------------------------
(* Outcomes of valid() *)

Returned(v) == [exc |-> "none", msg |-> v, jti |-> 0]
JwtFailed(msg) == [exc |-> "JwtFailed", msg |-> msg, jti |-> 0]
JwtReuse(jti) == [exc |-> "JwtFailed", msg |-> "Jwt re-use disallowed", jti |-> jti]
Raised(exc) == [exc |-> exc, msg |-> "", jti |-> 0]
NoRes == [exc |-> "", msg |-> "", jti |-> 0]
ResTrue == Returned("True")

NoCall == [m |-> 0, inp |-> << >>, jti |-> 0]
NoLast == [m |-> 0, inp |-> << >>, k |-> 0, res |-> NoRes]
NoTally == [done |-> 0, ok |-> 0, reuse |-> 0, m |-> 0]
Mixed == 0 - 1        \* tally[j].m when the calls went to different Managers

Free == 0
ThreadId(t) == t
SweeperId(m) == 0 - m

Unset == [set |-> FALSE, val |-> << >>]
NoSweep == [by |-> 0, removed |-> {}, left |-> {}, raised |-> FALSE]
NoOut == [f |-> "", v |-> << >>]

Builds == {"package", "legacy"}

\* self.secrets: the instance attribute if one was assigned, else the
\* class attribute
SecretsOf(m) == IF ownSecrets[m].set THEN ownSecrets[m].val ELSE clsSecrets

----------------------------------------------------------------------------
(* Manager.valid: src/onetimejwt/__init__.py:140-174, src/onetimejwt.py:118-151 *)

\* faulty variant: the prefix is left in place
StripBearer_never(token) == token

\* lines 144-145: if 'Bearer ' in token: token = token[7:]
StripBearer(token) ==
    IF Contains(StrBearer, token) THEN Drop(token, 7) ELSE token

\* lines 147-155: the loop over self.secrets.  "nodata" is the loop running
\* out without a break.
RECURSIVE TrySecrets(_, _, _, _, _)

\* faulty variant: a signature mismatch ends the loop instead of continuing
TrySecrets_first_only(toks, secrets, i, token, t) ==
    IF i > Len(secrets) THEN [kind |-> "nodata", k |-> 0]
    ELSE LET r == jwt_decode(toks, token, secrets[i], t) IN
         IF r.kind = "DecodeError" THEN [kind |-> "nodata", k |-> 0] ELSE r

\* faulty variant: an expired token is passed on to the next secret
TrySecrets_skip_expired(toks, secrets, i, token, t) ==
    IF i > Len(secrets) THEN [kind |-> "nodata", k |-> 0]
    ELSE LET r == jwt_decode(toks, token, secrets[i], t) IN
         IF r.kind = "payload" THEN r
         ELSE TrySecrets(toks, secrets, i + 1, token, t)

TrySecrets(toks, secrets, i, token, t) ==
    IF i > Len(secrets) THEN [kind |-> "nodata", k |-> 0]
    ELSE LET r == jwt_decode(toks, token, secrets[i], t) IN
         IF r.kind = "payload" THEN r                      \* break
         ELSE IF r.kind = "DecodeError"
         THEN TrySecrets(toks, secrets, i + 1, token, t)   \* continue
         ELSE r                                            \* ExpiredSignatureError

\* "not data": None, or a payload with no field at all
EmptyPayload(tk) == ~tk.hasExp /\ ~tk.hasJti /\ ~tk.extra

\* lines 157-169: what valid() does with the outcome of the loop, up to the
\* call of already_used.  "check" means already_used(jti) is called next.
ValidChecks(b, toks, r, a, now0) ==
    IF r.kind = "ExpiredSignatureError" THEN JwtFailed("Jwt expired")
    ELSE IF r.kind = "nodata"
    THEN IF b = "package" THEN JwtFailed("Jwt cannot be decoded")
         ELSE Raised("UnboundLocalError")    \* legacy: data was never bound
    ELSE LET tk == toks[r.k] IN
         IF EmptyPayload(tk) THEN JwtFailed("Jwt cannot be decoded")
         ELSE IF ~tk.hasExp \/ tk.exp = 0
         THEN JwtFailed("Jwt missing expiration (exp)")
         ELSE IF now0 - tk.exp > a
         THEN JwtFailed("Jwt bad expiration - greater than I want to accept")
         ELSE IF ~tk.hasJti THEN JwtFailed("Jwt missing one-time id (jti)")
         ELSE [exc |-> "check", msg |-> "", jti |-> tk.jti]

\* faulty variant: the jti is checked but not recorded
already_used_no_insert(jw, tok, t) == [used |-> tok \in DOMAIN jw, jwts |-> jw]

\* faulty variant: a replay refreshes the stored timestamp
already_used_refresh(jw, tok, t) ==
    [used |-> tok \in DOMAIN jw,
     jwts |-> [j \in DOMAIN jw \cup {tok} |-> IF j = tok THEN t ELSE jw[j]]]

(* Manager.already_used: lines 132-138 (the body, run with the lock held) *)
already_used(jw, tok, t) ==
    IF tok \in DOMAIN jw
    THEN [used |-> TRUE, jwts |-> jw]
    ELSE [used |-> FALSE,
          jwts |-> [j \in DOMAIN jw \cup {tok} |-> IF j = tok THEN t ELSE jw[j]]]

(* Manager._clean: lines 124-130 (package), 102-108 (legacy) *)
\* faulty variant: every entry counts as stale
Stale_everything(jw, a, t) == DOMAIN jw

Stale(jw, a, t) == {j \in DOMAIN jw : (t - jw[j]) > (a * 2)}

Without(jw, S) == [j \in DOMAIN jw \ S |-> jw[j]]

\* The package iterates a snapshot of the keys (Python 2 keys() is a list) and
\* deletes every stale entry.  The legacy variant iterates the dict itself:
\* the first deletion makes the next step of the iteration raise RuntimeError
\* ("dictionary changed size during iteration"); which stale key the
\* iteration meets first depends on the dict's order.
\* faulty variant: the pass stamps the entries it keeps with its own time
clean_touch(b, jw, a, t) ==
    {[jwts |-> [j \in DOMAIN jw \ Stale(jw, a, t) |-> t], raised |-> FALSE]}

clean(b, jw, a, t) ==
    IF b = "package" \/ Stale(jw, a, t) = {}
    THEN {[jwts |-> Without(jw, Stale(jw, a, t)), raised |-> FALSE]}
    ELSE {[jwts |-> Without(jw, {j}), raised |-> TRUE] : j \in Stale(jw, a, t)}

----------------------------------------------------------------------------
(* Inputs *)

\* Manager(*secrets, age=...): the configurations a process constructs, for
\* its first Manager and for a further one
ManagerArgs(m) ==
    IF m = 1
    THEN { [secrets |-> << SecretA >>,            age |-> Sec(1)],
           [secrets |-> << SecretA64, SecretB >>, age |-> Sec(2)] }
    ELSE { [secrets |-> << >>,                    age |-> Sec(1)],
           [secrets |-> << SecretB, SecretA >>,   age |-> Sec(1)] }

\* generate(secret, age, **payload): what senders call
GenerateArgs == { [secret |-> SecretA,   age |-> Sec(3), extra |-> FALSE],
                  [secret |-> SecretB,   age |-> Sec(1), extra |-> TRUE],
                  [secret |-> SecretA64, age |-> Sec(1), extra |-> FALSE] }

TokenIds == 1..MaxTokens

\* what a caller presents: a minted token, bare or as an Authorization value
Inputs(toks) == {Serialized(k) : k \in 1..Len(toks)}
                \cup {StrBearer \o Serialized(k) : k \in 1..Len(toks)}

----------------------------------------------------------------------------
\* the state of the process before any Manager exists
ProgramInit ==
    /\ build \in Builds
    /\ now = StartTime
    /\ made = [m \in Managers |-> FALSE]
    /\ age = [m \in Managers |-> Sec(60)]          \* class attribute age = 60
    /\ ownSecrets = [m \in Managers |-> Unset]
    /\ clsSecrets = << >>
    /\ jwts = [j \in {} |-> 0]
    /\ lock = Free
    /\ due = [m \in Managers |-> 0]
    /\ spc = [m \in Managers |-> "wait"]
    /\ tokens = << >>
    /\ pc = [t \in Threads |-> "idle"]
    /\ call = [t \in Threads |-> NoCall]
    /\ last = NoLast
    /\ tally = [j \in TokenIds |-> NoTally]
    /\ ctorArgs = [m \in Managers |-> << >>]
    /\ nOk = [j \in TokenIds |-> 0]
    /\ owner = [j \in TokenIds |-> 0]
    /\ raced = [j \in TokenIds |-> FALSE]
    /\ lastSweep = NoSweep

Init ==
    /\ ProgramInit
    /\ scope \in Scopes
    /\ arg = << >>
    /\ out = NoOut

(* Manager.__init__: src/onetimejwt/__init__.py:118-122, src/onetimejwt.py:97-100 *)
\* The package appends each resolved secret to self.secrets, which is the
\* class attribute; the legacy variant assigns an instance attribute.
\* Managers are constructed at process start, one after the other.
Construct(m, secrets, a) ==
    /\ ~made[m]
    /\ m <= scope.managers
    /\ now = StartTime
    /\ \A m2 \in Managers : m2 < m => made[m2]
    /\ made' = [made EXCEPT ![m] = TRUE]
    /\ age' = [age EXCEPT ![m] = a]
    /\ IF build = "package"
       THEN /\ clsSecrets' = clsSecrets \o MapDecodeSecret(secrets)
            /\ UNCHANGED ownSecrets
       ELSE /\ ownSecrets' = [ownSecrets EXCEPT ![m] = [set |-> TRUE, val |-> secrets]]
            /\ UNCHANGED clsSecrets
    /\ due' = [due EXCEPT ![m] = now + a]    \* timeinterval.start(age * 1000, _clean)
    /\ ctorArgs' = [ctorArgs EXCEPT ![m] = secrets]
    /\ UNCHANGED << arg, out, build, scope, now, jwts, lock, spc, tokens, pc, call, last, tally,
                    nOk, owner, raced, lastSweep >>

\* a sender mints a token
Generate(secret, a, extra) ==
    /\ Len(tokens) < scope.tokens
    /\ now < StartTime + MintWindow
    /\ tokens' = Append(tokens,
                        generate(build, secret, a, extra, Len(tokens) + 1, now))
    /\ UNCHANGED << arg, out, build, scope, now, made, age, ownSecrets, clsSecrets, jwts, lock, due,
                    spc, pc, call, last, tally, ctorArgs, nOk, owner, raced,
                    lastSweep >>

\* history: the minted token a presented string ends with, 0 if none
TokenOf(toks, inp) ==
    IF Len(inp) > 0 /\ inp[Len(inp)] - TokBase \in 1..Len(toks)
    THEN inp[Len(inp)] - TokBase
    ELSE 0

\* a call on token k through Manager m returns v
Finish(m, inp, v) ==
    LET k == TokenOf(tokens, inp) IN
    /\ last' = [m |-> m, inp |-> inp, k |-> k, res |-> v]
    /\ tally' = IF k = 0 THEN tally
                ELSE [tally EXCEPT ![k] =
                        [done  |-> @.done + 1,
                         ok    |-> @.ok + (IF v = ResTrue THEN 1 ELSE 0),
                         reuse |-> @.reuse + (IF v = JwtReuse(k) THEN 1 ELSE 0),
                         m     |-> IF @.m \in {0, m} THEN m ELSE Mixed]]

\* valid(), lines 142-169: read the clock, strip the prefix, decode under each
\* secret, then the checks.  Threads are interchangeable: a call takes the
\* first idle one.
InFlight(k) == Cardinality({t \in Threads : pc[t] # "idle" /\ call[t].jti = k})

ValidCall(t, m, inp) ==
    /\ pc[t] = "idle"
    /\ t <= scope.threads
    /\ \A t2 \in Threads : t2 < t => pc[t2] # "idle"
    /\ made[m]
    /\ LET k == TokenOf(tokens, inp) IN
          k # 0 => tally[k].done + InFlight(k) < MaxCalls
    /\ LET r == TrySecrets(tokens, SecretsOf(m), 1, StripBearer(inp), now)
           v == ValidChecks(build, tokens, r, age[m], now)
       IN  IF v.exc = "check"
           THEN /\ call' = [call EXCEPT ![t] = [m |-> m, inp |-> inp, jti |-> v.jti]]
                /\ pc' = [pc EXCEPT ![t] = "acquire"]
                /\ UNCHANGED << last, tally >>
           ELSE /\ Finish(m, inp, v)
                /\ UNCHANGED << call, pc >>
    /\ UNCHANGED << arg, out, build, scope, now, made, age, ownSecrets, clsSecrets, jwts, lock, due,
                    spc, tokens, ctorArgs, nOk, owner, raced, lastSweep >>

\* faulty variant: the wrapper enters without waiting for the lock
AUAcquire_nolock(t) ==
    /\ pc[t] = "acquire"
    /\ lock' = ThreadId(t)
    /\ pc' = [pc EXCEPT ![t] = "locked"]
    /\ UNCHANGED << arg, out, build, scope, now, made, age, ownSecrets, clsSecrets, jwts, due,
                    spc, tokens, call, last, tally, ctorArgs, nOk, owner, raced,
                    lastSweep >>

\* mutex wrapper, line 94: lock.acquire(True)
AUAcquire(t) ==
    /\ pc[t] = "acquire"
    /\ lock = Free
    /\ lock' = ThreadId(t)
    /\ pc' = [pc EXCEPT ![t] = "locked"]
    /\ raced' = [raced EXCEPT ![call[t].jti] =
                   @ \/ \E t2 \in Threads \ {t} :
                          pc[t2] = "acquire" /\ call[t2].jti = call[t].jti]
    /\ UNCHANGED << arg, out, build, scope, now, made, age, ownSecrets, clsSecrets, jwts, due, spc,
                    tokens, call, last, tally, ctorArgs, nOk, owner, lastSweep >>

\* already_used under the lock, the release (line 100) and lines 171-174
AUBody(t) ==
    /\ pc[t] = "locked"
    /\ LET c == call[t]
           r == already_used(jwts, c.jti, now)
       IN  /\ jwts' = r.jwts
           /\ Finish(c.m, c.inp, IF r.used THEN JwtReuse(c.jti) ELSE ResTrue)
           /\ nOk' = IF r.used THEN nOk
                     ELSE [nOk EXCEPT ![c.jti] = Min(@ + 1, 2)]
           /\ owner' = IF r.used THEN owner ELSE [owner EXCEPT ![c.jti] = c.m]
    /\ lock' = Free
    /\ pc' = [pc EXCEPT ![t] = "idle"]
    /\ call' = [call EXCEPT ![t] = NoCall]
    /\ UNCHANGED << arg, out, build, scope, now, made, age, ownSecrets, clsSecrets, due, spc,
                    tokens, ctorArgs, raced, lastSweep >>

\* the interval timer of m fires every age seconds and calls _clean, whose
\* mutex wrapper takes the lock (line 94)
CleanAcquire(m) ==
    /\ made[m]
    /\ spc[m] = "wait"
    /\ now >= due[m]
    /\ lock = Free
    /\ lock' = SweeperId(m)
    /\ due' = [due EXCEPT ![m] = @ + age[m]]
    /\ spc' = [spc EXCEPT ![m] = "locked"]
    /\ UNCHANGED << arg, out, build, scope, now, made, age, ownSecrets, clsSecrets, jwts,
                    tokens, pc, call, last, tally, ctorArgs, nOk, owner, raced,
                    lastSweep >>

\* faulty variant: a sweep pass that raises keeps the lock (no finally)
CleanBody_keeps_lock(m) ==
    /\ spc[m] = "locked"
    /\ \E o \in clean(build, jwts, age[m], now) :
          /\ jwts' = o.jwts
          /\ lastSweep' =
                [by |-> m,
                 removed |-> {[j |-> j, age |-> now - jwts[j], owner |-> owner[j]] :
                                 j \in DOMAIN jwts \ DOMAIN o.jwts},
                 left |-> Stale(o.jwts, age[m], now),
                 raised |-> o.raised]
          /\ lock' = IF o.raised THEN lock ELSE Free
    /\ spc' = [spc EXCEPT ![m] = "wait"]
    /\ UNCHANGED << arg, out, build, scope, now, made, age, ownSecrets, clsSecrets, due, tokens,
                    pc, call, last, tally, ctorArgs, nOk, owner, raced >>

\* _clean under the lock, and the release (line 100, in finally: also when
\* the pass raises)
CleanBody(m) ==
    /\ spc[m] = "locked"
    /\ \E o \in clean(build, jwts, age[m], now) :
          /\ jwts' = o.jwts
          /\ lastSweep' =
                [by |-> m,
                 removed |-> {[j |-> j, age |-> now - jwts[j], owner |-> owner[j]] :
                                 j \in DOMAIN jwts \ DOMAIN o.jwts},
                 left |-> Stale(o.jwts, age[m], now),
                 raised |-> o.raised]
    /\ lock' = Free
    /\ spc' = [spc EXCEPT ![m] = "wait"]
    /\ UNCHANGED << arg, out, build, scope, now, made, age, ownSecrets, clsSecrets, due, tokens,
                    pc, call, last, tally, ctorArgs, nOk, owner, raced >>

\* Time passes.  A timer fires on time, and a sweep pass and a valid() call
\* take no time: the clock does not move while a sweep is due or running or
\* a call is in progress.  The tallies of the tick start afresh.
Tick ==
    /\ now < MaxTime
    /\ \A m \in Managers : made[m] => (spc[m] = "wait" /\ now < due[m])
    /\ \A t \in Threads : pc[t] = "idle"
    /\ now' = now + 1
    /\ last' = NoLast
    /\ tally' = [j \in TokenIds |-> NoTally]
    /\ raced' = [j \in TokenIds |-> FALSE]
    /\ lastSweep' = NoSweep
    /\ UNCHANGED << arg, out, build, scope, made, age, ownSecrets, clsSecrets, jwts, lock, due,
                    spc, tokens, pc, call, ctorArgs, nOk, owner >>

Next ==
    \/ \E m \in Managers : \E c \in ManagerArgs(m) : Construct(m, c.secrets, c.age)
    \/ \E g \in GenerateArgs : Generate(g.secret, g.age, g.extra)
    \/ \E t \in Threads, m \in Managers, i \in Inputs(tokens) : ValidCall(t, m, i)
    \/ \E t \in Threads : AUAcquire(t)
    \/ \E t \in Threads : AUBody(t)
    \/ \E m \in Managers : CleanAcquire(m)
    \/ \E m \in Managers : CleanBody(m)
    \/ Tick

Spec == Init /\ [][Next]_vars

\* Scheduling: a thread that can take a step (enter the wrapper once the lock
\* is free, run the body it holds the lock for) is eventually run.  The
\* threads of one run share the clock, so only the first scope has contention.
ThreadStep ==
    \/ \E t \in Threads : AUAcquire(t)
    \/ \E t \in Threads : AUBody(t)
    \/ \E m \in Managers : CleanAcquire(m)
    \/ \E m \in Managers : CleanBody(m)

FairInit == Init /\ scope.threads = NThreads

FairSpec == FairInit /\ [][Next]_vars /\ WF_vars(ThreadStep)

----------------------------------------------------------------------------
(* Tokens that were not made by generate(): a sender calls the codec with   *)
(* a payload of its own.  One Manager, one token, one thread.               *)

\* payloads: which claims are present, and exp as an offset from the clock
RawPayloads ==
    { [hasExp |-> FALSE, rel |-> 0,      hasJti |-> FALSE, extra |-> FALSE],  \* {}
      [hasExp |-> FALSE, rel |-> 0,      hasJti |-> TRUE,  extra |-> FALSE],  \* {jti}
      [hasExp |-> FALSE, rel |-> 0,      hasJti |-> FALSE, extra |-> TRUE],   \* {x}
      [hasExp |-> FALSE, rel |-> 0,      hasJti |-> TRUE,  extra |-> TRUE],   \* {jti, x}
      [hasExp |-> TRUE,  rel |-> Sec(1), hasJti |-> FALSE, extra |-> FALSE],  \* {exp}
      [hasExp |-> TRUE,  rel |-> Sec(1), hasJti |-> TRUE,  extra |-> FALSE] } \* {exp, jti}

\* jwt.encode(payload, secret), called by the sender itself
Encode(p, secret) ==
    /\ Len(tokens) < scope.tokens
    /\ now < StartTime + MintWindow
    /\ tokens' = Append(tokens,
                        [ secret |-> secret,
                          key    |-> secret,
                          hasExp |-> p.hasExp,
                          exp    |-> IF p.hasExp THEN int(now + p.rel) ELSE 0,
                          hasJti |-> p.hasJti,
                          jti    |-> Len(tokens) + 1,
                          extra  |-> p.extra,
                          at     |-> now ])
    /\ UNCHANGED << arg, out, build, scope, now, made, age, ownSecrets, clsSecrets, jwts, lock,
                    due, spc, pc, call, last, tally, ctorArgs, nOk, owner, raced,
                    lastSweep >>

RawInit ==
    /\ ProgramInit
    /\ scope = [managers |-> 1, tokens |-> 1, threads |-> 1]
    /\ arg = << >>
    /\ out = NoOut

RawNext ==
    \/ Next
    \/ \E p \in RawPayloads, s \in {SecretA, SecretB} : Encode(p, s)

RawSpec == RawInit /\ [][RawNext]_vars

----------------------------------------------------------------------------
(* The string functions on their own: the prefix handling of valid() and    *)
(* decode_secret(), applied to one argument.                                *)

MaxBytes == 3          \* length of the binary secrets that are encoded
ByteVals == {0, 97, 255}

RECURSIVE BytesOfLen(_)
BytesOfLen(n) ==
    IF n = 0 THEN {<< >>}
    ELSE {<< c >> \o b : c \in ByteVals, b \in BytesOfLen(n - 1)}
ByteStrings == UNION {BytesOfLen(n) : n \in 0..MaxBytes}

\* base64.b64encode, the inverse the round trip is stated with
B64Chr(v) ==
    IF v < 26 THEN 65 + v
    ELSE IF v < 52 THEN 71 + v
    ELSE IF v < 62 THEN v - 4
    ELSE IF v = 62 THEN 43
    ELSE 47
RECURSIVE b64encode(_)
b64encode(b) ==
    IF Len(b) = 0 THEN << >>
    ELSE LET n == b[1] * 65536 + (IF Len(b) >= 2 THEN b[2] ELSE 0) * 256
                  + (IF Len(b) >= 3 THEN b[3] ELSE 0)
         IN  << B64Chr(n \div 262144),
                B64Chr((n \div 4096) % 64),
                IF Len(b) >= 2 THEN B64Chr((n \div 64) % 64) ELSE 61,
                IF Len(b) >= 3 THEN B64Chr(n % 64) ELSE 61 >>
             \o b64encode(Drop(b, 3))

StrMarker == StrBase64 \o << 58 >>                     \* "base64:"

\* what callers pass: a word, or nothing, in front of a body
Prefixes == { << >>,
              StrBearer,
              << 98, 101, 97, 114, 101, 114, 32 >>,        \* "bearer "
              << 66, 101, 97, 114, 101, 114 >>,            \* "Bearer"
              << 120 >> \o StrBearer,                      \* "xBearer "
              StrMarker,
              StrBase64,                                   \* "base64"
              StrBase64 \o << 59 >>,                       \* "base64;"
              << 98, 97, 115, 101, 54 >> }                 \* "base6"
Bodies == { << >>, SecretA, << 89, 81, 61, 61 >>,          \* "", "a", "YQ=="
            Serialized(1),
            Serialized(1) \o << 32 >> \o StrBearer }       \* "<token> Bearer "
PureInputs == {p \o b : p \in Prefixes, b \in Bodies}
              \cup {StrMarker \o b64encode(b) : b \in ByteStrings}

progVars == << build, scope, now, made, age, ownSecrets, clsSecrets, jwts, lock, due,
               spc, tokens, pc, call, last, tally, ctorArgs, nOk, owner, raced,
               lastSweep >>

PureInit ==
    /\ ProgramInit
    /\ scope = [managers |-> 1, tokens |-> MaxTokens, threads |-> 1]
    /\ arg \in PureInputs
    /\ out = NoOut

\* valid(), lines 144-145, on the string it is passed
ApplyStripBearer ==
    /\ out = NoOut
    /\ out' = [f |-> "StripBearer", v |-> StripBearer(arg)]
    /\ UNCHANGED << arg, progVars >>

\* decode_secret(arg); the legacy variant has no such function
ApplyDecodeSecret ==
    /\ out = NoOut
    /\ build = "package"
    /\ out' = [f |-> "decode_secret", v |-> decode_secret(arg)]
    /\ UNCHANGED << arg, progVars >>

PureNext == ApplyStripBearer \/ ApplyDecodeSecret

PureSpec == PureInit /\ [][PureNext]_vars

----------------------------------------------------------------------------
(* Vocabulary of the properties *)

Minted == 1..Len(tokens)

\* Manager m was constructed with the very secret token k was generated with
Trusted(m, k) == \E i \in 1..Len(ctorArgs[m]) : ctorArgs[m][i] = tokens[k].secret

\* the signing key of token k is none of the secrets passed to the
\* constructor of m, resolved or as given
Untrusted(m, k) ==
    \A i \in 1..Len(ctorArgs[m]) :
        /\ ctorArgs[m][i] # tokens[k].key
        /\ decode_secret(ctorArgs[m][i]) # tokens[k].key

\* the codec's whole-second clock has passed the exp of token k
NativelyExpired(k) == tokens[k].exp < int(now)

\* the call that returned last was the first time token k reached a verdict
\* other than a replay: no valid() had accepted k before it
NeverSeenBefore(k) ==
    /\ last.res # JwtReuse(k)
    /\ nOk[k] = (IF last.res = ResTrue THEN 1 ELSE 0)

\* no sweep is due or running: the clock may move
Quiescent == \A m \in Managers : made[m] => (spc[m] = "wait" /\ now < due[m])

----------------------------------------------------------------------------
(* C1: at-most-once acceptance.  For every jti, at most one valid() call    *)
(* carrying it ever returns True, whatever the expiration of the token and  *)
(* however calls, sweeps and the clock interleave.                          *)
C1_AtMostOnce == \A j \in TokenIds : nOk[j] <= 1

(* C2: N threads call valid() concurrently on one Manager with the same     *)
(* freshly minted token (minted in this tick, signed with a secret the      *)
(* Manager was constructed with): of the calls that have returned, exactly  *)
(* one returned True and all the others failed with the re-use failure.     *)
C2_ExactlyOneWinner ==
    \A k \in Minted :
        (/\ tokens[k].at = now
         /\ tally[k].done >= 1
         /\ tally[k].m \in Managers
         /\ Trusted(tally[k].m, k))
        => (tally[k].ok = 1 /\ tally[k].reuse = tally[k].done - 1)

\* all threads raced for the lock with the same fresh token and all returned
C2_Witness ==
    \E k \in Minted :
        /\ tokens[k].at = now
        /\ raced[k]
        /\ tally[k].done = NThreads
        /\ tally[k].m \in Managers
        /\ Trusted(tally[k].m, k)
        /\ tally[k].ok = 1

C4_UntrustedUndecodable ==
    (last.k # 0 /\ Untrusted(last.m, last.k))
    => last.res = JwtFailed("Jwt cannot be decoded")

(* C5: a Manager constructed with two secrets accepts an unexpired token    *)
(* signed with either: the only refusal is that of a jti already recorded.  *)
C5_EitherSecret ==
    LET k == last.k IN
    (k # 0 /\ Len(ctorArgs[last.m]) = 2 /\ Trusted(last.m, k)
       /\ ~NativelyExpired(k))
    => \/ last.res = ResTrue
       \/ (last.res = JwtReuse(k) /\ nOk[k] >= 1)

\* a token signed with the second secret of the list was accepted
C5_Witness ==
    /\ last.k # 0
    /\ Len(ctorArgs[last.m]) = 2
    /\ ctorArgs[last.m][2] = tokens[last.k].secret
    /\ ctorArgs[last.m][1] # tokens[last.k].secret
    /\ last.res = ResTrue

C7_Retention ==
    \A r \in lastSweep.removed : r.age > 2 * age[r.owner]

(* C8: eviction.  Each sweep pass removes every entry older than 2 x maxAge *)
(* without failing, and with the sweeps on schedule no entry is older than  *)
(* 2 x maxAge + epsilon, epsilon being less than one tick of the clock.     *)
C8_Eviction ==
    /\ lastSweep.left = {}
    /\ ~lastSweep.raised
    /\ Quiescent =>
         \A j \in DOMAIN jwts : now - jwts[j] <= 2 * age[owner[j]]

(* C9: Managers do not share the seen map.  A Manager refuses a token as a  *)
(* replay only if it recorded the jti itself, and a sweep of one Manager    *)
(* removes only entries that Manager recorded.                              *)
C9_Independent ==
    /\ (last.k # 0 /\ last.res = JwtReuse(last.k)) => owner[last.k] = last.m
    /\ \A r \in lastSweep.removed : r.owner = lastSweep.by

(* C10: the secret list of a Manager is the resolved secrets passed to its  *)
(* own constructor, in order, and nothing ever changes it.                  *)
C10_SecretsImmutable ==
    \A m \in Managers : made[m] => SecretsOf(m) = MapDecodeSecret(ctorArgs[m])

(* C11: the first 7 characters of the input of valid() are removed if and   *)
(* only if the input begins with "Bearer " (case-sensitive, one space);     *)
(* every other input is decoded unchanged.                                  *)
C11_LeadingBearerOnly ==
    out.f = "StripBearer"
    => out.v = (IF Take(arg, 7) = StrBearer THEN Drop(arg, 7) ELSE arg)

(* C12: decode_secret(raw) is the base64 decoding of the text after the     *)
(* marker if raw begins with "base64:", so that                             *)
(* decode_secret("base64:" + base64(b)) = b for every byte string b, and    *)
(* raw unchanged for every raw that does not begin with "base64:".          *)
C12_DecodeSecret ==
    out.f = "decode_secret"
    => /\ IF Take(arg, 7) = StrMarker
          THEN out.v = b64decode(Drop(arg, 7))
          ELSE out.v = arg
       /\ \A b \in ByteStrings : arg = StrMarker \o b64encode(b) => out.v = b

(* C13: side effects of valid() on the seen map.  A call that returns True  *)
(* adds exactly one entry, its jti mapped to the current time, and changes  *)
(* nothing else; a call that fails, for whatever reason, leaves the map as  *)
(* it was, and a refused replay keeps the stored first-seen time.           *)
CallReturned(k) == tally'[k].done = tally[k].done + 1

C13_SeenMapEffects ==
    [][ \A k \in TokenIds :
          CallReturned(k) =>
             IF last'.res = ResTrue
             THEN /\ k \notin DOMAIN jwts
                  /\ jwts' = [j \in DOMAIN jwts \cup {k} |->
                                 IF j = k THEN now ELSE jwts[j]]
             ELSE jwts' = jwts ]_vars

\* a replay was refused in a later tick than the acceptance, and the entry
\* still carries the time of the acceptance
C13_Witness ==
    /\ last.k # 0
    /\ last.res = JwtReuse(last.k)
    /\ last.k \in DOMAIN jwts
    /\ jwts[last.k] < now

(* C14: generate(secret, age) signs with the secret exactly as given; it    *)
(* does not resolve a "base64:" prefix: the signing key of every minted     *)
(* token equals the secret argument, also when that begins with "base64".   *)
C14_SignsAsGiven == \A k \in Minted : tokens[k].key = tokens[k].secret

(* C15: mutual exclusion on the seen map.  At most one thread, validator or *)
(* timer, is inside already_used() or _clean() at a time, and it is the     *)
(* holder of the lock; the seen map is written only by the thread that      *)
(* holds the lock, which keeps it until its check-and-insert or its sweep   *)
(* pass is complete.                                                        *)
Inside == {ThreadId(t) : t \in {u \in Threads : pc[u] = "locked"}}
          \cup {SweeperId(m) : m \in {n \in Managers : spc[n] = "locked"}}

OneInside ==
    /\ Cardinality({t \in Threads : pc[t] = "locked"})
         + Cardinality({m \in Managers : spc[m] = "locked"}) <= 1
    /\ Inside = (IF lock = Free THEN {} ELSE {lock})

C15_MutualExclusion ==
    [][ /\ OneInside
        /\ OneInside'
        /\ jwts' # jwts =>
             /\ lock # Free
             /\ lock' = Free
             /\ Inside = {lock}
             /\ Inside' = {} ]_vars

\* one thread is inside already_used() while another waits for the lock and
\* a sweep is due
C15_Witness ==
    /\ \E t \in Threads : pc[t] = "locked" /\ lock = ThreadId(t)
    /\ \E t \in Threads : pc[t] = "acquire"
    /\ \E m \in Managers : made[m] /\ spc[m] = "wait" /\ now >= due[m]

(* C16: the lock is released on every exit path of already_used() and       *)
(* _clean(), also when the sweep pass raises: the lock is free whenever no  *)
(* thread is inside either method, and under fair scheduling every valid()  *)
(* call that waits for the lock returns and every sweep that is due takes   *)
(* the lock and finishes: again and again no call is in progress and no     *)
(* sweep is due or running.                                                 *)
\* no call is in progress and no sweep is due or running
Calm == Quiescent /\ \A t \in Threads : pc[t] = "idle"

C16_LockReleased ==
    /\ [](Inside = {} => lock = Free)
    /\ []<>Calm

\* a sweep pass raised, and a validator holds the lock after it
C16_Witness ==
    /\ lastSweep.raised
    /\ spc[lastSweep.by] = "wait"
    /\ \E t \in Threads : pc[t] = "locked" /\ lock = ThreadId(t)

(* C17: tie-break on native expiration.  valid() tries the secrets in       *)
(* order; a signature mismatch passes on to the next secret, and the first  *)
(* secret under which the codec reports the token expired ends the call     *)
(* with "Jwt expired", whatever secrets follow, with the seen map unchanged.*)
(* "Jwt expired" is the outcome exactly when some secret of the list        *)
(* verifies the signature and the token is natively expired.                *)
KeyAt(m, k, i) == i \in 1..Len(SecretsOf(m)) /\ SecretsOf(m)[i] = tokens[k].key

C17_ExpiredEndsValidation ==
    [][ \A k \in TokenIds :
          CallReturned(k) =>
             LET m == last'.m
                 verifies == \E i \in 1..Len(SecretsOf(m)) : KeyAt(m, k, i)
             IN  /\ (verifies /\ NativelyExpired(k))
                      <=> last'.res = JwtFailed("Jwt expired")
                 /\ last'.res = JwtFailed("Jwt expired") => jwts' = jwts ]_vars

\* an expired token failed with "Jwt expired" under the second secret of a
\* list that goes on after it, the first secret not verifying it
C17_Witness ==
    /\ last.k # 0
    /\ last.res = JwtFailed("Jwt expired")
    /\ ~KeyAt(last.m, last.k, 1)
    /\ KeyAt(last.m, last.k, 2)
    /\ Len(SecretsOf(last.m)) > 2

(* C18: a token whose signature verifies under a secret of the Manager and  *)
(* whose payload lacks exp, the empty payload included, fails with "Jwt     *)
(* missing expiration (exp)"; the checks are reported in the order decode,  *)
(* exp presence, exp policy, jti presence, replay: the failure returned is  *)
(* that of the first check that fails.                                      *)
Verifies(m, k) == \E i \in 1..Len(SecretsOf(m)) : KeyAt(m, k, i)

\* the first check of the order that fails for token k at Manager m, the
\* replay check left aside
FirstFailure(m, k) ==
    IF ~Verifies(m, k) THEN JwtFailed("Jwt cannot be decoded")
    ELSE IF tokens[k].hasExp /\ NativelyExpired(k) THEN JwtFailed("Jwt expired")
    ELSE IF ~tokens[k].hasExp THEN JwtFailed("Jwt missing expiration (exp)")
    ELSE IF now - tokens[k].exp > age[m]
    THEN JwtFailed("Jwt bad expiration - greater than I want to accept")
    ELSE IF ~tokens[k].hasJti THEN JwtFailed("Jwt missing one-time id (jti)")
    ELSE NoRes

C18_CheckOrder ==
    LET k == last.k
        m == last.m
    IN  (k # 0 /\ (build = "package" \/ Verifies(m, k)))
        => /\ (Verifies(m, k) /\ ~tokens[k].hasExp)
                => last.res = JwtFailed("Jwt missing expiration (exp)")
           /\ IF FirstFailure(m, k) # NoRes
              THEN last.res = FirstFailure(m, k)
              ELSE last.res \in {ResTrue, JwtReuse(k)}

(* C19: restricted at-most-once.  With a single Manager in the process, a   *)
(* token minted with an age no larger than the Manager's age (so that its   *)
(* exp is at most its first acceptance plus that age) is accepted at most   *)
(* once, however calls, sweeps and the clock interleave: when the sweep may *)
(* evict its entry the token already fails the expiration check.            *)
OnlyManager == made[1] /\ \A m \in Managers : made[m] => m = 1

ShortLived(j) == tokens[j].exp - int(tokens[j].at) <= age[1]

Provenance ==
    \A j \in DOMAIN jwts :
        /\ j \in Minted
        /\ nOk[j] >= 1
        /\ tokens[j].at <= jwts[j]
        /\ jwts[j] <= now

SweepStep == \E m \in Managers : spc[m] = "locked" /\ spc'[m] = "wait"

C20_CacheProvenance ==
    [][ /\ Provenance
        /\ Provenance'
        /\ \A j \in DOMAIN jwts :
              IF j \in DOMAIN jwts' THEN jwts'[j] = jwts[j] ELSE SweepStep
        /\ \A j \in DOMAIN jwts' \ DOMAIN jwts :
              /\ ~SweepStep
              /\ CallReturned(j)
              /\ last'.res = ResTrue
              /\ jwts'[j] = now
              /\ nOk'[j] > nOk[j] \/ nOk[j] = 2 ]_vars

\* a sweep pass removed one entry and kept an older-than-now entry of an
\* accepted token
C20_Witness ==
    /\ lastSweep.removed # {}
    /\ \E j \in DOMAIN jwts : jwts[j] < now /\ nOk[j] >= 1

====
